---- MODULE Spec2Model ----
(***************************************************************************)
(* The education page of GeneBlend: the card corpus loaded asynchronously  *)
(* (loadEducationData), the keyword index built from the cards' tags, the  *)
(* search handler (handleSearch), the grid renderer (renderCards) and the  *)
(* keyword highlighter (highlightText).                                    *)
(*                                                                         *)
(* A string is a sequence of one-character strings.  A card is a record    *)
(* with the fields row and text and, when present in the JSON, col and     *)
(* tags.  The page is assumed to hold the #card-grid element.              *)
(***************************************************************************)
EXTENDS Integers, Sequences, FiniteSets, TLC

VARIABLES
    CARDS_DATA,  \* the corpus (module-level let)
    KW_KEYS,     \* the keyword index (module-level let)
    grid,        \* the content of #card-grid
    pc,          \* where loadEducationData stands: "fetch", "json", "done", "failed"
    searchVal,   \* the value of the search box: the argument of the last handleSearch
    rendered,    \* the query of the last renderCards call
    hung         \* the event loop is stuck inside a handler that never returns

vars == <<CARDS_DATA, KW_KEYS, grid, pc, searchVal, rendered, hung>>

-----------------------------------------------------------------------------
(* Strings *)

\* The one member of a singleton set.  The({e(x) : x \in {v}}) is e with x bound to
\* the value of v, computed once.
The(S) == CHOOSE x \in S : TRUE

\* The upper-case letters that occur in the model's strings, with their lower case.
LowerOf == [A |-> "a", T |-> "t", C |-> "c"]

lowerChar(c) == IF c \in DOMAIN LowerOf THEN LowerOf[c] ELSE c

toLowerCase(s) == [i \in 1..Len(s) |-> lowerChar(s[i])]

\* String.prototype.trim: strips the white space at both ends.
trim(s) ==
    LET keep == {i \in 1..Len(s) : s[i] # " "}
    IN  IF keep = {} THEN <<>>
        ELSE SubSeq(s, CHOOSE i \in keep : \A j \in keep : i <= j,
                       CHOOSE i \in keep : \A j \in keep : i >= j)

\* String.prototype.includes
includes(s, sub) ==
    \E i \in 0..(Len(s) - Len(sub)) : SubSeq(s, i + 1, i + Len(sub)) = sub

\* String.prototype.slice(from, to), 0-based, to exclusive
slice(s, from, to) == SubSeq(s, from + 1, to)

-----------------------------------------------------------------------------
(* Regular expressions: the subset that keyword patterns can fall in.  A   *)
(* pattern source is a string; "\\" followed by a character is that        *)
(* character taken literally, an unescaped "." matches any character, any   *)
(* other character matches itself.  Flags g and i.                          *)

MetaChars == {".", "*", "+", "?", "^", "$", "{", "}", "(", ")", "|", "[", "]", "\\"}

RECURSIVE escRx(_)
escRx(s) ==
    IF s = <<>> THEN <<>>
    ELSE (IF Head(s) \in MetaChars THEN <<"\\", Head(s)>> ELSE <<Head(s)>>)
         \o escRx(Tail(s))

\* new RegExp(source, 'gi'): the sequence of atoms of the pattern.
RECURSIVE RegExp(_)
RegExp(source) ==
    IF source = <<>> THEN <<>>
    ELSE IF Head(source) = "\\" /\ Len(source) >= 2
         THEN <<[any |-> FALSE, ch |-> source[2]]>> \o RegExp(Tail(Tail(source)))
         ELSE <<[any |-> Head(source) = ".", ch |-> Head(source)]>> \o RegExp(Tail(source))

\* atomMatches without the i flag.
atomMatchesCaseSensitive(atom, c) == atom.any \/ atom.ch = c

\* One atom against one character, ignoring case.
atomMatches(atom, c) == atom.any \/ lowerChar(atom.ch) = lowerChar(c)

\* The pattern matches s at the 0-based index i.
matchesAt(re, s, i) ==
    /\ i + Len(re) <= Len(s)
    /\ \A j \in 1..Len(re) : atomMatches(re[j], s[i + j])

\* RegExp.prototype.exec with the g flag: the leftmost match at or after lastIndex;
\* index -1 stands for null.  A match leaves lastIndex at its end, null resets it to 0.
exec(re, s, lastIndex) ==
    The({IF starts = {} THEN [index |-> -1, len |-> 0, lastIndex |-> 0]
         ELSE The({[index |-> i, len |-> Len(re), lastIndex |-> i + Len(re)] :
                   i \in {k \in starts : \A m \in starts : k <= m}}) :
         starts \in {{i \in lastIndex..Len(s) : matchesAt(re, s, i)}}})

-----------------------------------------------------------------------------
(* highlightText *)

\* The while loop over the occurrences of re in one plain part.  An empty match
\* leaves lastIndex where it was, so the next exec finds it again and the loop
\* never ends: returned is FALSE.
RECURSIVE scanLoop(_, _, _, _, _)
\* scanLoop with last = m.index in place of last = m.index + m[0].length.
scanLoopLastAtIndex(re, s, lastIndex, last, segs) ==
    The({IF m.index = -1
         THEN [returned |-> TRUE,
               segs |-> IF last < Len(s)
                        THEN Append(segs, [s |-> slice(s, last, Len(s)), raw |-> TRUE])
                        ELSE segs]
         ELSE IF m.lastIndex = lastIndex
         THEN [returned |-> FALSE, segs |-> segs]
         ELSE scanLoop(re, s, m.lastIndex, m.index,
                       (IF m.index > last
                        THEN Append(segs, [s |-> slice(s, last, m.index), raw |-> TRUE])
                        ELSE segs)
                       \o <<[s |-> slice(s, m.index, m.index + m.len), raw |-> FALSE]>>) :
         m \in {exec(re, s, lastIndex)}})

scanLoop(re, s, lastIndex, last, segs) ==
    The({IF m.index = -1
         THEN [returned |-> TRUE,
               segs |-> IF last < Len(s)
                        THEN Append(segs, [s |-> slice(s, last, Len(s)), raw |-> TRUE])
                        ELSE segs]
         ELSE IF m.lastIndex = lastIndex
         THEN [returned |-> FALSE, segs |-> segs]
         ELSE scanLoop(re, s, m.lastIndex, m.index + m.len,
                       (IF m.index > last
                        THEN Append(segs, [s |-> slice(s, last, m.index), raw |-> TRUE])
                        ELSE segs)
                       \o <<[s |-> slice(s, m.index, m.index + m.len), raw |-> FALSE]>>) :
         m \in {exec(re, s, lastIndex)}})

\* splitPart without the test of part.raw: highlighted parts are scanned again.
splitPartRescans(re, part) ==
    The({IF ~r.returned THEN r
         ELSE [returned |-> TRUE,
               segs |-> IF r.segs # <<>> THEN r.segs ELSE <<part>>] :
         r \in {scanLoop(re, part.s, 0, 0, <<>>)}})

\* The flatMap callback: one part split by one keyword.
splitPart(re, part) ==
    IF ~part.raw THEN [returned |-> TRUE, segs |-> <<part>>]
    ELSE The({IF ~r.returned THEN r
              ELSE [returned |-> TRUE,
                    segs |-> IF r.segs # <<>> THEN r.segs ELSE <<part>>] :
              r \in {scanLoop(re, part.s, 0, 0, <<>>)}})

\* parts.flatMap(...) for one keyword.
RECURSIVE flatMapParts(_, _)
flatMapParts(re, parts) ==
    IF parts = <<>> THEN [returned |-> TRUE, segs |-> <<>>]
    ELSE The({IF ~h.returned THEN h
              ELSE The({[returned |-> t.returned, segs |-> h.segs \o t.segs] :
                        t \in {flatMapParts(re, Tail(parts))}}) :
              h \in {splitPart(re, Head(parts))}})

\* forEachTarget that runs the pass of the first target only.
forEachTargetFirstOnly(targets, parts) ==
    IF targets = <<>> THEN [returned |-> TRUE, parts |-> parts]
    ELSE The({[returned |-> r.returned, parts |-> r.segs] :
              r \in {flatMapParts(RegExp(escRx(Head(targets))), parts)}})

\* targets.forEach(kw => ...)
RECURSIVE forEachTarget(_, _)
forEachTarget(targets, parts) ==
    IF targets = <<>> THEN [returned |-> TRUE, parts |-> parts]
    ELSE The({IF ~r.returned THEN [returned |-> FALSE, parts |-> r.segs]
              ELSE forEachTarget(Tail(targets), r.segs) :
              r \in {flatMapParts(RegExp(escRx(Head(targets))), parts)}})

\* The filter predicate of targets: the bidirectional substring relation between a
\* keyword and the lower-cased query.
kwFilter(k, lq) ==
    \E lk \in {toLowerCase(k)} : includes(lk, lq) \/ includes(lq, lk)

\* KW_KEYS.filter(...) of highlightText
targetsOf(keys, query) ==
    The({SelectSeq(keys, LAMBDA k : kwFilter(k, lq)) : lq \in {toLowerCase(query)}})

\* highlightText without its first line, if (!query) return text.
highlightTextNoGuard(keys, text, query) ==
    The({IF targets = <<>>
         THEN [returned |-> TRUE, parts |-> <<[s |-> text, raw |-> TRUE]>>]
         ELSE forEachTarget(targets, <<[s |-> text, raw |-> TRUE]>>) :
         targets \in {targetsOf(keys, query)}})

\* highlightText(text, query), reading the keyword index keys: the parts whose join
\* is the returned HTML; a text returned as it is is one plain part.
highlightText(keys, text, query) ==
    IF query = <<>> THEN [returned |-> TRUE, parts |-> <<[s |-> text, raw |-> TRUE]>>]
    ELSE The({IF targets = <<>>
              THEN [returned |-> TRUE, parts |-> <<[s |-> text, raw |-> TRUE]>>]
              ELSE forEachTarget(targets, <<[s |-> text, raw |-> TRUE]>>) :
              targets \in {targetsOf(keys, query)}})

-----------------------------------------------------------------------------
(* loadEducationData: the keyword index *)

\* card.tags || []
tagsOf(card) == IF "tags" \in DOMAIN card THEN card.tags ELSE <<>>

\* CARDS_DATA.flatMap(c => c.tags || [])
RECURSIVE allTags(_)
allTags(cards) ==
    IF cards = <<>> THEN <<>> ELSE tagsOf(Head(cards)) \o allTags(Tail(cards))

\* [...new Set(tags)]: a Set keeps each value once, in insertion order.
RECURSIVE spreadSet(_, _)
\* spreadSet that takes two tags differing only in case for the same tag.
spreadSetFoldsCase(tags, seen) ==
    IF tags = <<>> THEN seen
    ELSE spreadSet(Tail(tags),
                   IF \E i \in 1..Len(seen) : toLowerCase(seen[i]) = toLowerCase(Head(tags))
                   THEN seen ELSE Append(seen, Head(tags)))

spreadSet(tags, seen) ==
    IF tags = <<>> THEN seen
    ELSE spreadSet(Tail(tags),
                   IF \E i \in 1..Len(seen) : seen[i] = Head(tags)
                   THEN seen ELSE Append(seen, Head(tags)))

buildKeys(cards) == spreadSet(allTags(cards), <<>>)

-----------------------------------------------------------------------------
(* renderCards *)

\* Array.prototype.sort with a numeric comparator ka - kb: stable, ascending in keys.
sortByKey(seq, keys) ==
    [p \in 1..Len(seq) |->
        seq[CHOOSE i \in 1..Len(seq) :
              p = 1 + Cardinality({j \in 1..Len(seq) :
                        keys[j] < keys[i] \/ (keys[j] = keys[i] /\ j < i)})]]

\* Object.keys of an object with integer keys: ascending order of the keys.
RECURSIVE objectKeys(_)
objectKeys(S) ==
    IF S = {} THEN <<>>
    ELSE The({<<k>> \o objectKeys(S \ {k}) : k \in {x \in S : \A y \in S : x <= y}})

\* ROWS_MAP: the cards of each row, in corpus order.
ROWS_MAP(cards) ==
    [k \in {cards[i].row : i \in 1..Len(cards)} |->
        SelectSeq(cards, LAMBDA c : c.row = k)]

\* Object.keys(ROWS_MAP).sort((a, b) => +a - +b).map(k => ROWS_MAP[k])
ROWS_SORTED(cards) ==
    The({The({[i \in 1..Len(sorted) |-> map[sorted[i]]] :
              sorted \in {The({sortByKey(keys, keys) : keys \in {objectKeys(DOMAIN map)}})}}) :
         map \in {ROWS_MAP(cards)}})

\* a.col || 1
colOf(card) == IF "col" \in DOMAIN card /\ card.col # 0 THEN card.col ELSE 1

\* sortRow that leaves the row in corpus order.
sortRowSkipped(row) == row

\* row.sort((a, b) => (a.col || 1) - (b.col || 1))
sortRow(row) == sortByKey(row, [i \in 1..Len(row) |-> colOf(row[i])])

\* const lq = query ? query.toLowerCase().trim() : ''
lqOf(query) == IF query # <<>> THEN trim(toLowerCase(query)) ELSE <<>>

\* tagFilter with one direction of the relation only.
tagFilterOneWay(tag, lq) == includes(toLowerCase(tag), lq)

\* The filter predicate of matchedTags.
tagFilter(tag, lq) ==
    \E lt \in {toLowerCase(tag)} : includes(lt, lq) \/ includes(lq, lt)

matchedTagsOf(tags, lq) ==
    IF lq # <<>> THEN SelectSeq(tags, LAMBDA tag : tagFilter(tag, lq)) ELSE <<>>

\* A renderCards that filters the corpus itself down to the cards that match.
corpusFiltered(cards, query) ==
    IF lqOf(query) = <<>> THEN cards
    ELSE SelectSeq(cards, LAMBDA c : matchedTagsOf(tagsOf(c), lqOf(query)) # <<>>)

\* The corpus after renderCards(query): the function assigns neither CARDS_DATA
\* nor a card, and the arrays it sorts are ROWS_MAP's own.
corpusAfterRender(cards, query) == cards

\* isTagMatch by substring in place of equality.
isTagMatchSubstring(matchedTags, tag) ==
    \E i \in 1..Len(matchedTags) : includes(toLowerCase(matchedTags[i]), toLowerCase(tag))

\* matchedTags.some(m => m.toLowerCase() === tag.toLowerCase())
isTagMatch(matchedTags, tag) ==
    \E lt \in {toLowerCase(tag)} :
        \E i \in 1..Len(matchedTags) : toLowerCase(matchedTags[i]) = lt

\* The class names of a card element.
classOf(card, lq, isMatch) ==
    <<"card">>
    \o (IF "col" \in DOMAIN card /\ card.col = 2 THEN <<"col-2">> ELSE <<>>)
    \o (IF lq # <<>> THEN (IF isMatch THEN <<"match">> ELSE <<"dim">>) ELSE <<>>)

\* The element built for one card; returned is FALSE when highlightText never returns.
cardEl(keys, card, query) ==
    The({[card |-> card,
          matchedTags |-> matchedTags,
          isMatch |-> Len(matchedTags) > 0,
          isDim |-> lq # <<>> /\ ~(Len(matchedTags) > 0),
          className |-> classOf(card, lq, Len(matchedTags) > 0),
          textHtml |-> textHtml.parts,
          tagsHtml |-> [i \in 1..Len(tags) |->
                           [tag |-> tags[i], match |-> isTagMatch(matchedTags, tags[i])]],
          clickable |-> ~(lq # <<>> /\ ~(Len(matchedTags) > 0)),
          returned |-> textHtml.returned] :
         lq \in {lqOf(query)},
         tags \in {tagsOf(card)},
         matchedTags \in {matchedTagsOf(tagsOf(card), lqOf(query))},
         textHtml \in {highlightText(keys, card.text, query)}})

\* One grid-row element: the cards of the row in column order.
rowEl(keys, row, query) ==
    The({[i \in 1..Len(sorted) |-> cardEl(keys, sorted[i], query)] :
         sorted \in {sortRow(row)}})

rowReturned(els) == \A i \in 1..Len(els) : els[i].returned

\* renderCards(query), reading the corpus cards and the keyword index keys: the rows
\* appended to the grid, up to the first row whose rendering never returns.
renderCards(cards, keys, query) ==
    The({The({[hung |-> stuck # {},
               rows |-> IF stuck = {} THEN els
                        ELSE SubSeq(els, 1, (CHOOSE r \in stuck : \A q \in stuck : r <= q) - 1),
               data |-> corpusAfterRender(cards, query)] :
              stuck \in {{r \in 1..Len(els) : ~rowReturned(els[r])}}}) :
         els \in {The({[r \in 1..Len(rows) |-> rowEl(keys, rows[r], query)] :
                       rows \in {ROWS_SORTED(cards)}})}})

-----------------------------------------------------------------------------
(* The page *)

ErrorMessage == [error |-> TRUE, rows |-> <<>>]

Init ==
    /\ CARDS_DATA = <<>>
    /\ KW_KEYS = <<>>
    /\ grid = [error |-> FALSE, rows |-> <<>>]
    /\ pc = "fetch"
    /\ searchVal = <<>>
    /\ rendered = <<>>
    /\ hung = FALSE

\* The catch branch of loadEducationData.
catchBranch ==
    /\ grid' = ErrorMessage
    /\ pc' = "failed"
    /\ UNCHANGED <<CARDS_DATA, KW_KEYS, searchVal, rendered, hung>>

\* await fetch(...) rejects.
FetchRejected == ~hung /\ pc = "fetch" /\ catchBranch

\* await fetch(...) resolves with a response that is not ok.
FetchNotOk == ~hung /\ pc = "fetch" /\ catchBranch

\* await fetch(...) resolves with an ok response; response.json() is awaited.
FetchOk ==
    /\ ~hung /\ pc = "fetch"
    /\ pc' = "json"
    /\ UNCHANGED <<CARDS_DATA, KW_KEYS, grid, searchVal, rendered, hung>>

\* await response.json() rejects.
JsonRejected == ~hung /\ pc = "json" /\ catchBranch

\* A null element of the JSON array.
Null == [null |-> TRUE]

\* CARDS_DATA.flatMap(c => c.tags || []) throws a TypeError on a null element.
flatMapThrows(cards) == \E i \in 1..Len(cards) : cards[i] = Null

\* CARDS_DATA.forEach(card => ... card.row ...) throws a TypeError on a null element.
forEachThrows(cards) == \E i \in 1..Len(cards) : cards[i] = Null

\* await response.json() resolves with an array: CARDS_DATA is assigned first, then
\* either the keyword index is built and the grid rendered, or flatMap throws and
\* the catch branch runs with CARDS_DATA already assigned.
JsonResolved(corpora) ==
    /\ ~hung /\ pc = "json"
    /\ \E cards \in corpora :
         IF flatMapThrows(cards)
         THEN /\ CARDS_DATA' = cards
              /\ grid' = ErrorMessage
              /\ pc' = "failed"
              /\ UNCHANGED <<KW_KEYS, rendered, hung>>
         ELSE \E keys \in {buildKeys(cards)} :
              \E r \in {renderCards(cards, keys, <<>>)} :
                /\ CARDS_DATA' = r.data
                /\ KW_KEYS' = keys
                /\ grid' = [error |-> FALSE, rows |-> r.rows]
                /\ hung' = r.hung
                /\ rendered' = <<>>
                /\ pc' = "done"
    /\ UNCHANGED searchVal

\* oninput of the search box: handleSearch(val). renderCards empties the grid first;
\* on a corpus with a null element its forEach then throws, the exception leaves the
\* handler and the grid stays empty.
handleSearch(vals) ==
    /\ ~hung
    /\ \E val \in vals :
        /\ searchVal' = val
        /\ rendered' = trim(val)
        /\ IF forEachThrows(CARDS_DATA)
           THEN /\ grid' = [error |-> FALSE, rows |-> <<>>]
                /\ UNCHANGED <<CARDS_DATA, hung>>
           ELSE \E r \in {renderCards(CARDS_DATA, KW_KEYS, trim(val))} :
                  /\ grid' = [error |-> FALSE, rows |-> r.rows]
                  /\ hung' = r.hung
                  /\ CARDS_DATA' = r.data
    /\ UNCHANGED <<KW_KEYS, pc>>

-----------------------------------------------------------------------------
(* Inputs *)

MaxTextLen == 3   \* length of a generated card text
MaxTags == 2      \* tags of a generated card
MaxRow == 2       \* rows of the generated grids
MaxCards == 3     \* cards of a generated grid

StringsUpTo(alphabet, n) == UNION {[1..k -> alphabet] : k \in 0..n}

\* The scenario of the spec's section 8: one card about adenine.
AdenineText ==
    <<"A", "d", "e", "n", "i", "n", "e", " ", "p", "a", "i", "r", "s", " ",
      "w", "i", "t", "h", " ", "T", "h", "y", "m", "i", "n", "e">>
Adenine == <<"a", "d", "e", "n", "i", "n", "e">>
Pairing == <<"p", "a", "i", "r", "i", "n", "g">>
AdenineCard == [row |-> 1, col |-> 1, text |-> AdenineText, tags |-> <<Adenine, Pairing>>]
Aden == <<"a", "d", "e", "n">>

\* The overlap scenario: keywords AT and TA on the text CATATA.
Catata == <<"C", "A", "T", "A", "T", "A">>
CatataCard == [row |-> 1, text |-> Catata, tags |-> <<<<"A", "T">>, <<"T", "A">>>>]
\* The same text with a keyword and a keyword inside it: AT and A.
CatataNestedCard == [row |-> 1, text |-> Catata, tags |-> <<<<"A", "T">>, <<"A">>>>]

\* One card with every text over a small alphabet and every short list of keywords;
\* the keywords overlap each other, differ in case, and one is empty.
SegKeywords == {<<"a">>, <<"a", "t">>, <<"t", "A">>, <<>>}
SegCorpora ==
    {<<[row |-> 1, text |-> t, tags |-> ts]>> :
        t \in StringsUpTo({"a", "t", "A"}, MaxTextLen),
        ts \in StringsUpTo(SegKeywords, MaxTags)}
    \cup {<<CatataCard>>, <<CatataNestedCard>>}
SegQueries ==
    {<<>>, <<"a">>, <<"T">>, <<"a", "t">>, <<"c">>}

\* One or two cards whose tag lists range over every short list of tags (or no
\* tags field); the tags contain each other, differ in case, and one is empty.
TagPool == {<<"a">>, <<"A">>, <<"a", "t", "a">>, <<>>}
TagCards ==
    {[row |-> 1, text |-> <<"a">>]}
    \cup {[row |-> 1, text |-> <<"a">>, tags |-> ts] : ts \in StringsUpTo(TagPool, MaxTags)}
TagCorpora ==
    {<<>>} \cup {<<c>> : c \in TagCards} \cup {<<c, d>> : c, d \in TagCards}
TagQueries == {<<>>, <<"t">>, <<"a", "T", "a", "t">>, <<" ", "a", " ">>, <<" ">>}

\* Grids: every short list of cards over a few rows and the two columns of the
\* page, col present or not.
GridCols == {1, 2}
GridCards ==
    {[row |-> r, text |-> <<"a", "t">>, tags |-> <<<<"a">>>>] : r \in 1..MaxRow}
    \cup {[row |-> r, col |-> c, text |-> <<"a", "t">>, tags |-> <<<<"a">>>>] :
            r \in 1..MaxRow, c \in GridCols}
GridCorpora == StringsUpTo(GridCards, MaxCards) \cup {<<AdenineCard>>}
GridQueries == {<<>>, Aden, <<"t">>, <<" ", "a">>}

\* Responses: every short JSON array over a card with tags, a card without tags and
\* null.
LoadElements == {AdenineCard, [row |-> 2, text |-> <<"a", "t">>], Null}
LoadPayloads == StringsUpTo(LoadElements, MaxCards)
LoadQueries == {<<>>, Aden, <<"t">>}

-----------------------------------------------------------------------------
(* Specifications *)

Next ==
    \/ FetchRejected
    \/ FetchNotOk
    \/ FetchOk
    \/ JsonRejected
    \/ JsonResolved(GridCorpora)
    \/ handleSearch(GridQueries)

Spec == Init /\ [][Next]_vars

NextSeg ==
    \/ FetchRejected
    \/ FetchNotOk
    \/ FetchOk
    \/ JsonRejected
    \/ JsonResolved(SegCorpora)
    \/ handleSearch(SegQueries)

SpecSeg == Init /\ [][NextSeg]_vars

NextTags ==
    \/ FetchRejected
    \/ FetchNotOk
    \/ FetchOk
    \/ JsonRejected
    \/ JsonResolved(TagCorpora)
    \/ handleSearch(TagQueries)

SpecTags == Init /\ [][NextTags]_vars

NextLoad ==
    \/ FetchRejected
    \/ FetchNotOk
    \/ FetchOk
    \/ JsonRejected
    \/ JsonResolved(LoadPayloads)
    \/ handleSearch(LoadQueries)

SpecLoad == Init /\ [][NextLoad]_vars

-----------------------------------------------------------------------------
(* Properties *)

\* The card elements in the grid.
GridEls == UNION {{grid.rows[r][i] : i \in 1..Len(grid.rows[r])} : r \in 1..Len(grid.rows)}

\* The texts of the parts, joined in order.
RECURSIVE joinParts(_)
joinParts(parts) ==
    IF parts = <<>> THEN <<>> ELSE Head(parts).s \o joinParts(Tail(parts))

\* a occurs in b as a contiguous run.
occursIn(a, b) == \E pre, post \in 0..Len(b) :
    /\ pre + Len(a) + post = Len(b)
    /\ \A i \in 1..Len(a) : b[pre + i] = a[i]

\* The bidirectional, case-insensitive substring relation of the spec's section 4.2.
bidirectional(c, q) ==
    occursIn(toLowerCase(c), toLowerCase(q)) \/ occursIn(toLowerCase(q), toLowerCase(c))

\* The keywords of the index related to the query, in index order.
relatedKeys(q) == SelectSeq(KW_KEYS, LAMBDA k : q # <<>> /\ bidirectional(k, q))

\* C1. Round trip: the parts highlightText produced for a card, joined in order,
\* are the card's text, whatever the query and the keyword index.
C1_RoundTrip == \A el \in GridEls : joinParts(el.textHtml) = el.card.text

\* A card split into at least three parts, plain and highlighted, by two keywords.
C1_Witness ==
    \E el \in GridEls :
        /\ Len(relatedKeys(rendered)) >= 2
        /\ Len(el.textHtml) >= 3
        /\ \E i, j \in 1..Len(el.textHtml) : el.textHtml[i].raw /\ ~el.textHtml[j].raw

\* The highlighted ranges of a part list: <<0-based start, length>> of each
\* highlighted part, the start being the length of the parts before it.
hlRanges(parts) ==
    {<<Len(joinParts(SubSeq(parts, 1, p - 1))), Len(parts[p].s)>> :
        p \in {q \in 1..Len(parts) : ~parts[q].raw}}

\* The occurrences one keyword claims among the free positions of the text,
\* scanning left to right from position i without overlap.
RECURSIVE claimScan(_, _, _, _)
claimScan(text, kw, free, i) ==
    IF Len(kw) = 0 \/ i + Len(kw) > Len(text) THEN {}
    ELSE IF /\ \A j \in 0..(Len(kw) - 1) : (i + j) \in free
            /\ toLowerCase(SubSeq(text, i + 1, i + Len(kw))) = toLowerCase(kw)
         THEN {<<i, Len(kw)>>} \cup claimScan(text, kw, free, i + Len(kw))
         ELSE claimScan(text, kw, free, i + 1)

\* The ranges the keywords claim in order: each takes its occurrences among the
\* positions that no earlier keyword has claimed.
RECURSIVE claimAll(_, _, _)
claimAll(text, kws, free) ==
    IF kws = <<>> THEN {}
    ELSE LET got == claimScan(text, Head(kws), free, 0)
         IN  got \cup claimAll(text, Tail(kws),
                               free \ UNION {rg[1]..(rg[1] + rg[2] - 1) : rg \in got})

\* C2. Keyword-order precedence: the highlighted parts of a card are disjoint
\* ranges of its text, namely the occurrences each target keyword finds, in index
\* order, among the characters that no earlier keyword has claimed.
C2_KeywordOrderPrecedence ==
    \A el \in GridEls :
        /\ \A rg \in hlRanges(el.textHtml) : rg[1] + rg[2] <= Len(el.card.text)
        /\ \A rg, rh \in hlRanges(el.textHtml) :
              rg # rh => (rg[1] + rg[2] <= rh[1] \/ rh[1] + rh[2] <= rg[1])
        /\ hlRanges(el.textHtml)
             = claimAll(el.card.text, relatedKeys(rendered), 0..(Len(el.card.text) - 1))

\* Targets AT, TA on CATATA: plain C, highlighted AT, highlighted AT, plain A.
C2_Witness ==
    /\ CARDS_DATA = <<CatataCard>>
    /\ relatedKeys(rendered) = <<<<"A", "T">>, <<"T", "A">>>>
    /\ \E el \in GridEls :
          el.textHtml = <<[s |-> <<"C">>, raw |-> TRUE], [s |-> <<"A", "T">>, raw |-> FALSE],
                          [s |-> <<"A", "T">>, raw |-> FALSE], [s |-> <<"A">>, raw |-> TRUE]>>

\* C5. No targets, no highlighting: when the query is empty or no keyword of the
\* index is related to it, every card's text comes back as one plain part.
C5_NoTargetsNoHighlight ==
    relatedKeys(rendered) = <<>> =>
        \A el \in GridEls : el.textHtml = <<[s |-> el.card.text, raw |-> TRUE]>>

\* A card rendered under a query that no keyword of a non-empty index is related
\* to, its text containing a keyword.
C5_Witness ==
    /\ rendered # <<>>
    /\ KW_KEYS # <<>>
    /\ relatedKeys(rendered) = <<>>
    /\ \E el \in GridEls : \E i \in 1..Len(KW_KEYS) : occursIn(KW_KEYS[i], el.card.text)

\* The tags of a card, none when the field is absent.
tagsOrNone(card) == IF "tags" \in DOMAIN card THEN card.tags ELSE <<>>

\* C3. Card match: matchedTags is the subsequence of the card's tags related to the
\* trimmed query, empty under an empty query; isMatch is its being non-empty; the
\* card is dimmed iff the query is non-empty and it is no match.
C3_CardMatch ==
    \A el \in GridEls :
        /\ el.matchedTags =
             SelectSeq(tagsOrNone(el.card),
                       LAMBDA t : trim(rendered) # <<>> /\ bidirectional(t, trim(rendered)))
        /\ el.isMatch = (el.matchedTags # <<>>)
        /\ el.isDim = (trim(rendered) # <<>> /\ ~el.isMatch)
        /\ (\E i \in 1..Len(el.className) : el.className[i] = "dim") = el.isDim
        /\ (\E i \in 1..Len(el.className) : el.className[i] = "match")
             = (trim(rendered) # <<>> /\ el.isMatch)
        /\ el.clickable = ~el.isDim
        /\ trim(rendered) = <<>> => ~el.isDim /\ ~el.isMatch

\* Under one query: a card matched through one of its tags only, beside a dimmed
\* card that has tags.
C3_Witness ==
    \E el, dim \in GridEls :
        /\ dim.isDim
        /\ tagsOrNone(dim.card) # <<>>
        /\ el.isMatch
        /\ Len(el.matchedTags) < Len(tagsOrNone(el.card))

\* The places of the corpus where the tag t stands: <<card, tag>> indices.
placesOf(t) ==
    UNION {{<<c, i>> : i \in {k \in 1..Len(tagsOrNone(CARDS_DATA[c])) :
                                 tagsOrNone(CARDS_DATA[c])[k] = t}} :
           c \in 1..Len(CARDS_DATA)}

\* Place p comes before place q in card-then-tag traversal order.
placeBefore(p, q) == p[1] < q[1] \/ (p[1] = q[1] /\ p[2] < q[2])

\* Some place of t comes before every place of u.
firstSeenBefore(t, u) ==
    \E p \in placesOf(t) : \A q \in placesOf(u) : placeBefore(p, q)

\* C6. Keyword index: after a successful load KW_KEYS holds each tag string of the
\* corpus once, told apart by case, nothing else, in order of first occurrence.
C6_KeywordIndex ==
    pc = "done" =>
        /\ \A i, j \in 1..Len(KW_KEYS) : i # j => KW_KEYS[i] # KW_KEYS[j]
        /\ \A i \in 1..Len(KW_KEYS) : placesOf(KW_KEYS[i]) # {}
        /\ \A c \in 1..Len(CARDS_DATA) : \A i \in 1..Len(tagsOrNone(CARDS_DATA[c])) :
              \E k \in 1..Len(KW_KEYS) : KW_KEYS[k] = tagsOrNone(CARDS_DATA[c])[i]
        /\ \A i, j \in 1..Len(KW_KEYS) :
              i < j => firstSeenBefore(KW_KEYS[i], KW_KEYS[j])

\* A loaded corpus in which two cards carry the same tag, with a later tag that
\* differs from an earlier one in case only.
C6_Witness ==
    /\ pc = "done"
    /\ Len(KW_KEYS) >= 3
    /\ \E k \in 1..Len(KW_KEYS) : \E p, q \in placesOf(KW_KEYS[k]) : p[1] # q[1]
    /\ \E i, j \in 1..Len(KW_KEYS) :
          KW_KEYS[i] # KW_KEYS[j] /\ toLowerCase(KW_KEYS[i]) = toLowerCase(KW_KEYS[j])

\* C8. Tag chips: a chip is marked iff its tag, lower-cased, equals the lower-cased
\* form of an entry of the card's matchedTags; under an empty query none is marked.
C8_TagChip ==
    \A el \in GridEls :
        /\ Len(el.tagsHtml) = Len(tagsOrNone(el.card))
        /\ \A i \in 1..Len(el.tagsHtml) :
              /\ el.tagsHtml[i].tag = tagsOrNone(el.card)[i]
              /\ el.tagsHtml[i].match =
                   (\E m \in 1..Len(el.matchedTags) :
                       toLowerCase(el.matchedTags[m]) = toLowerCase(el.tagsHtml[i].tag))
              /\ rendered = <<>> => ~el.tagsHtml[i].match

\* A card with a marked chip beside an unmarked chip whose tag occurs inside the
\* marked one.
C8_Witness ==
    \E el \in GridEls : \E i, j \in 1..Len(el.tagsHtml) :
        /\ el.tagsHtml[i].match
        /\ ~el.tagsHtml[j].match
        /\ occursIn(toLowerCase(el.tagsHtml[j].tag), toLowerCase(el.tagsHtml[i].tag))

\* The scenario of section 8: the adenine card loaded and the query "aden" rendered.
C4_Scenario ==
    /\ pc = "done"
    /\ ~hung
    /\ CARDS_DATA = <<AdenineCard>>
    /\ rendered = Aden

\* The part of C4 that spec and code agree on: one card, a match through adenine.
C4_Match ==
    /\ Len(grid.rows) = 1
    /\ Len(grid.rows[1]) = 1
    /\ grid.rows[1][1].isMatch
    /\ grid.rows[1][1].matchedTags = <<Adenine>>
    /\ relatedKeys(rendered) = <<Adenine>>

\* C4 as the spec states it: the card text is split into a highlighted "Aden" and
\* a plain "ine pairs with Thymine".
C4_AsClaimed ==
    C4_Scenario =>
        /\ C4_Match
        /\ grid.rows[1][1].textHtml =
             <<[s |-> SubSeq(AdenineText, 1, 4), raw |-> FALSE],
               [s |-> SubSeq(AdenineText, 5, Len(AdenineText)), raw |-> TRUE]>>

\* C4, amended: the whole occurrence of the target keyword is highlighted, so the
\* card text is split into a highlighted "Adenine" and a plain " pairs with Thymine".
C4_EndToEnd ==
    C4_Scenario =>
        /\ C4_Match
        /\ grid.rows[1][1].textHtml =
             <<[s |-> SubSeq(AdenineText, 1, 7), raw |-> FALSE],
               [s |-> SubSeq(AdenineText, 8, Len(AdenineText)), raw |-> TRUE]>>

C4_Witness == C4_Scenario /\ GridEls # {} /\ searchVal = Aden

\* The column a card counts under: 1 when it has no col.
colOrOne(card) == IF "col" \in DOMAIN card THEN card.col ELSE 1

\* How often the card c stands in the sequence of cards.
countIn(c, cards) == Cardinality({i \in 1..Len(cards) : cards[i] = c})

\* How often the card c stands in the grid.
countInGrid(c) ==
    Cardinality({<<r, i>> \in (1..Len(grid.rows)) \X (1..Len(CARDS_DATA)) :
                    i <= Len(grid.rows[r]) /\ grid.rows[r][i].card = c})

C10_GridReflectsLatestQuery ==
    (pc = "done" /\ ~hung) =>
        grid = [error |-> FALSE,
                rows |-> renderCards(CARDS_DATA, KW_KEYS, trim(searchVal)).rows]

\* C11. Load failure isolation: whenever loadEducationData has ended in its failure
\* branch, CARDS_DATA and KW_KEYS are still the empty corpus and the empty index, so
\* a later keystroke renders an empty corpus.
C11_LoadFailureIsolation ==
    pc = "failed" => (CARDS_DATA = <<>> /\ KW_KEYS = <<>>)

\* C12. Segmentation always terminates: under every non-empty query and every
\* keyword index, empty tags included, every highlightText call of the render
\* returns, so the handler that rendered the query is never left hanging.
C12_SegmentationTerminates == rendered # <<>> => ~hung

\* C13. Highlighting is sound and complete: in the parts highlightText returned for
\* a card, every highlighted part is, case-insensitively, one of the target keywords,
\* and no plain part contains a case-insensitive occurrence of a non-empty target
\* keyword, whichever keyword's pass produced the part.
C13_HighlightSoundComplete ==
    \A el \in GridEls : \A p \in 1..Len(el.textHtml) :
        \E part \in {el.textHtml[p]}, targets \in {relatedKeys(rendered)} :
            IF part.raw
            THEN \A k \in 1..Len(targets) :
                     targets[k] # <<>> =>
                         ~occursIn(toLowerCase(targets[k]), toLowerCase(part.s))
            ELSE \E k \in 1..Len(targets) :
                     toLowerCase(part.s) = toLowerCase(targets[k])

\* A text split by two keywords in turn: parts highlighted for the first target,
\* a part highlighted for the second, and a plain part left over.
C13_Witness ==
    \E el \in GridEls : \E targets \in {relatedKeys(rendered)} :
        /\ Len(targets) = 2
        /\ \E p, q, r \in 1..Len(el.textHtml) :
              /\ ~el.textHtml[p].raw
              /\ toLowerCase(el.textHtml[p].s) = toLowerCase(targets[1])
              /\ ~el.textHtml[q].raw
              /\ toLowerCase(el.textHtml[q].s) = toLowerCase(targets[2])
              /\ toLowerCase(targets[1]) # toLowerCase(targets[2])
              /\ el.textHtml[r].raw

====
